---- MODULE Spec2Model ----
(***************************************************************************)
(* Model of the download-completion reconciliation pipeline of             *)
(* librarian-bot: the qBittorrent completion poller (qbit_monitor.py),     *)
(* its persistent processed-torrents set, and the start/stop lifecycle     *)
(* driven by the bot's watchdog (bot.py).                                  *)
(*                                                                         *)
(* One poller task runs on a single-threaded event loop.  Each value of pc *)
(* is a suspension point (an await) of the task; everything the code does  *)
(* between two awaits is one action.  A process crash followed by a        *)
(* restart may happen between any two actions.                             *)
(***************************************************************************)
EXTENDS Integers, Sequences, FiniteSets, TLC

\* ---------------------------------------------------------------- bounds
NumJobs == 2        \* number of distinct torrent hashes the client may list
MaxTicks == 2       \* poll ticks over the life of the deployment
MaxTasks == 2       \* cap on loop tasks created between two stop() calls
NumRequests == 2    \* requests tracked at once, each with one download job
MaxCandidates == 2  \* releases the indexer search returns for one request
MaxClicks == 2      \* button clicks delivered to one admin message
NumUsers == 2       \* users who open requests
MaxTimeout == 2     \* largest timeout, in seconds
MaxInterval == 2    \* largest poll interval, in seconds

\* ------------------------------------------------------- program constants
ProgressDone == 100 \* progress >= 1.0, in percent

Jobs == 1..NumJobs

\* request r is made by user r and its download job has hash r
Requests == 1..NumRequests

\* book titles and torrent names, as sequences of words
Titles == {<<"Dune">>, <<"Dune", "Messiah">>, <<"dune", "messiah">>}

\* _parse_torrent's state_map, qBittorrent state -> TorrentState
state_map(q) ==
    CASE q = "downloading"       -> "downloading"
      [] q = "uploading"         -> "seeding"
      [] q = "queuedForSeeding"  -> "seeding"
      [] q = "queuedForChecking" -> "downloading"
      [] q = "checking"          -> "downloading"
      [] q = "missingFiles"      -> "error"
      [] q = "paused"            -> "paused"
      [] q = "forcedUP"          -> "seeding"
      [] q = "forcedDL"          -> "downloading"
      [] q = "stalledUP"         -> "seeding"
      [] q = "stalledDL"         -> "downloading"
      [] q = "allocating"        -> "downloading"
      [] q = "metaDL"            -> "downloading"
      [] OTHER                   -> "unknown"

\* What the download client reports for one job: qBittorrent's raw state and
\* the progress in percent: downloading, seeding at 100%, seeding below 100%,
\* and finished and paused ("pausedUP" is a state the map does not list, so
\* it is parsed to UNKNOWN).
Views ==
    {<<"downloading", 99>>, <<"uploading", 100>>, <<"stalledUP", 99>>,
     <<"pausedUP", 100>>}

\* TorrentInfo as _parse_torrent builds it: hash, parsed state, progress
TorrentInfo ==
    {[hash |-> j, state |-> state_map(v[1]), progress |-> v[2]] :
        j \in Jobs, v \in Views}

NoTorrent == [hash |-> 0, state |-> "none", progress |-> 0]

\* What get_torrents_in_category can return: a list of the jobs of the
\* managed category, each hash at most once.  The client lists its torrents
\* in a fixed order and the hashes are numbered in that order.  The empty
\* list also stands for a failed fetch (the client returns []).
Snapshots ==
    {s \in UNION {[1..n -> TorrentInfo] : n \in 0..NumJobs} :
        \A i, k \in DOMAIN s : i < k => s[i].hash < s[k].hash}

VARIABLES
    processed_hashes,   \* self.processed_hashes
    dbFile,             \* .processed_torrents.json: [status, hashes]
    monitoring,         \* self.monitoring
    task,               \* self.task: "none" | "running" | "cancelled"
    pc,                 \* await the running task is suspended at
    connected,          \* local `connected` of the current tick
    torrents,           \* rest of the list the for loop iterates over
    cur,                \* the torrent whose completion is being handled
    organizerRuns,      \* organizer runs executing in the worker pool
    log,                \* last message logged by start()/stop()
    orgCalls,           \* history: _organize_download calls per hash
    notifyCalls,        \* history: _notify_bot_completion calls per hash
    redo,               \* history: hashes whose sequence was cut short or whose mark was lost
    tasksCreated,       \* history: loop tasks created since the last stop()
    crashed,            \* history: the process has died and been restarted
    stopped,            \* history: stop() has cancelled a running task
    ticks,              \* history: connection attempts made
    stopping            \* a stop() call is suspended at `await self.task`

\* the completion poller and its processed-jobs set
pollerVars ==
    <<processed_hashes, dbFile, monitoring, task, pc, connected, torrents,
      cur, organizerRuns, log, orgCalls, notifyCalls, redo, tasksCreated,
      crashed, stopped, ticks, stopping>>

VARIABLES
    lookup,             \* the approvals and requests a completed job is looked up in
    approve,            \* one request waiting for the admin's decision
    ledger,             \* one persistent store, its file and its last call
    job,                \* one torrent of the client through the steps of a tick
    desk,               \* the requests of one user and their messages
    wait                \* one call of wait_for_completion

\* what the poller's own steps never touch
otherVars == <<lookup, approve, ledger, job, desk, wait>>

vars == <<pollerVars, otherVars>>

\* ------------------------------------------------------ processed-jobs set

\* the loader reading a key the file does not have: nothing is ever loaded
LoadWrongKey(f) == {}

\* _load_processed_hashes: a missing or unreadable file gives the empty set
LoadProcessedHashes(f) == IF f.status = "valid" THEN f.hashes ELSE {}

\* _save_processed_hashes: open(..., 'w') and json.dump; an exception is
\* logged and swallowed.  "ok" rewrites the whole file, "unchanged" is a
\* failure before the file is opened, "corrupt" a failure after it has been
\* truncated.
WriteOutcomes == {"ok", "unchanged", "corrupt"}

SaveProcessedHashes(f, hashes, w) ==
    CASE w = "ok"        -> [status |-> "valid", hashes |-> hashes]
      [] w = "unchanged" -> f
      [] w = "corrupt"   -> [status |-> "corrupt", hashes |-> {}]

\* the membership test left out: no torrent is ever skipped
IsProcessedNever(t) == FALSE

\* line 126: if torrent_hash in self.processed_hashes: continue
IsProcessed(t) == t.hash \in processed_hashes

\* `and` in place of `or`
IsCompletedBoth(t) == t.state = "seeding" /\ t.progress >= ProgressDone

\* line 131: torrent.state == TorrentState.SEEDING or torrent.progress >= 1.0
IsCompleted(t) == t.state = "seeding" \/ t.progress >= ProgressDone

\* the early return left out: a failed connection falls through to the fetch
AfterConnectFallThrough(ok) == "list"

\* lines 111-113: if not connected: return (the tick is over, the loop sleeps)
AfterConnect(ok) == IF ok THEN "list" ELSE "sleep"

\* the handler breaking out of the monitor loop instead of sleeping
OnTickErrorBreak == "done"

\* where the task continues after an exception has escaped the for loop:
\* caught at line 147, _check_completed_downloads returns, the loop sleeps
OnTickError == "sleep"

\* a sequence organize/notify/mark is under way for the current torrent
InSequence == task = "running" /\ pc \in {"organize", "notify"}

PollerInit ==
    /\ dbFile = [status |-> "missing", hashes |-> {}]
    /\ processed_hashes = {}
    /\ monitoring = FALSE
    /\ task = "none"
    /\ pc = "done"
    /\ connected = FALSE
    /\ torrents = <<>>
    /\ cur = NoTorrent
    /\ organizerRuns = 0
    /\ log = "none"
    /\ orgCalls = [j \in Jobs |-> 0]
    /\ notifyCalls = [j \in Jobs |-> 0]
    /\ redo = {}
    /\ tasksCreated = 0
    /\ crashed = FALSE
    /\ stopped = FALSE
    /\ ticks = 0
    /\ stopping = FALSE

\* ------------------------------------------------------------- start/stop

\* the body of start() after the guard: set the flag, create the loop task
CreateTask ==
    /\ monitoring' = TRUE
    /\ task' = "running"
    /\ pc' = "connect"
    /\ connected' = FALSE
    /\ torrents' = <<>>
    /\ cur' = NoTorrent
    /\ tasksCreated' = tasksCreated + 1
    /\ log' = "started"
    /\ UNCHANGED <<processed_hashes, dbFile, organizerRuns, orgCalls,
                   notifyCalls, redo, crashed, stopped, ticks,
                   stopping, otherVars>>

\* start() without its `if self.monitoring` guard
StartUnguarded == CreateTask

\* QBitMonitor.start
StartGuarded ==
    IF monitoring
    THEN /\ log' = "already_running"
         /\ UNCHANGED <<processed_hashes, dbFile, monitoring, task, pc,
                        connected, torrents, cur, organizerRuns, orgCalls,
                        notifyCalls, redo, tasksCreated, crashed, stopped, ticks,
                   stopping, otherVars>>
    ELSE CreateTask

Start ==
    /\ tasksCreated < MaxTasks
    /\ StartGuarded

\* LibrarianBot.monitor_torrents: every 5 minutes, start() if not monitoring
Watchdog ==
    /\ ~monitoring
    /\ Start

\* the flag cleared but the task left alone: no cancel, no await
StopNoCancel ==
    /\ monitoring' = FALSE
    /\ log' = "stopped"
    /\ UNCHANGED <<processed_hashes, dbFile, task, pc, connected, torrents, cur,
                   organizerRuns, orgCalls, notifyCalls, redo, tasksCreated,
                   crashed, stopped, ticks, stopping, otherVars>>

\* QBitMonitor.stop up to its await: clear the flag and cancel the task.  The
\* cancelled task is suspended at an await; CancelledError is no Exception,
\* so it passes every handler up to _monitor_loop, which breaks: the task
\* runs no statement that changes state again.  An organizer run that is
\* executing in the worker pool is not interrupted.  stop() is suspended at
\* `await self.task` when the task was running; with no task, or a task that
\* is done, it does not suspend and logs at once.
Stop ==
    /\ stopped' = (stopped \/ task = "running")
    /\ monitoring' = FALSE
    /\ task' = IF task = "running" THEN "cancelled" ELSE task
    /\ stopping' = (stopping \/ task = "running")
    /\ pc' = "done"
    /\ connected' = FALSE
    /\ torrents' = <<>>
    /\ cur' = NoTorrent
    /\ redo' = IF InSequence THEN redo \cup {cur.hash} ELSE redo
    /\ tasksCreated' = 0
    /\ log' = IF stopping \/ task = "running" THEN log ELSE "stopped"
    /\ UNCHANGED <<processed_hashes, dbFile, organizerRuns, orgCalls,
                   notifyCalls, crashed, ticks,
                   otherVars>>

\* stop() resumes from `await self.task`: the cancelled task has ended.  The
\* wake-up of stop() is queued when the task ends, ahead of every callback
\* of a task created in between, so no poller step comes before it.
StopReturn ==
    /\ stopping
    /\ stopping' = FALSE
    /\ log' = "stopped"
    /\ UNCHANGED <<processed_hashes, dbFile, monitoring, task, pc, connected,
                   torrents, cur, organizerRuns, orgCalls, notifyCalls, redo,
                   tasksCreated, crashed, stopped, ticks,
                   otherVars>>

\* An organizer run left behind in the worker pool by a cancelled task ends.
OrphanFinish ==
    /\ organizerRuns > (IF task = "running" /\ pc = "organize" THEN 1 ELSE 0)
    /\ organizerRuns' = organizerRuns - 1
    /\ UNCHANGED <<processed_hashes, dbFile, monitoring, task, pc, connected,
                   torrents, cur, log, orgCalls, notifyCalls, redo,
                   tasksCreated, crashed, stopped, ticks,
                   stopping, otherVars>>

\* The process dies at any point and is started again: QBitMonitor.__init__
Restart ==
    /\ crashed' = (crashed \/ task # "none")
    /\ processed_hashes' = LoadProcessedHashes(dbFile)
    /\ monitoring' = FALSE
    /\ task' = "none"
    /\ pc' = "done"
    /\ connected' = FALSE
    /\ torrents' = <<>>
    /\ cur' = NoTorrent
    /\ organizerRuns' = 0
    /\ log' = "none"
    /\ tasksCreated' = 0
    /\ redo' = redo \cup (IF InSequence THEN {cur.hash} ELSE {})
                    \cup (processed_hashes \ LoadProcessedHashes(dbFile))
    /\ stopping' = FALSE
    /\ UNCHANGED <<dbFile, orgCalls, notifyCalls, stopped, ticks,
                   otherVars>>

\* ------------------------------------------------------------ poller task

\* the executor returns from qbit.connect
TickConnect ==
    /\ task = "running" /\ ~stopping /\ pc = "connect"
    /\ ticks < MaxTicks
    /\ ticks' = ticks + 1
    /\ \E ok \in BOOLEAN :
         /\ connected' = ok
         /\ pc' = AfterConnect(ok)
    /\ UNCHANGED <<processed_hashes, dbFile, monitoring, task, torrents, cur,
                   organizerRuns, log, orgCalls, notifyCalls, redo,
                   tasksCreated, crashed, stopped,
                   stopping, otherVars>>

\* the executor returns from qbit.get_torrents_in_category
TickList ==
    /\ task = "running" /\ ~stopping /\ pc = "list"
    /\ \E snap \in Snapshots : torrents' = snap
    /\ pc' = "loop"
    /\ UNCHANGED <<processed_hashes, dbFile, monitoring, task, connected, cur,
                   organizerRuns, log, orgCalls, notifyCalls, redo,
                   tasksCreated, crashed, stopped, ticks,
                   stopping, otherVars>>

\* for torrent in torrents: the list is exhausted, the tick ends and the
\* loop goes to asyncio.sleep(check_interval)
LoopEnd ==
    /\ task = "running" /\ ~stopping /\ pc = "loop"
    /\ torrents = <<>>
    /\ pc' = "sleep"
    /\ UNCHANGED <<processed_hashes, dbFile, monitoring, task, connected,
                   torrents, cur, organizerRuns, log, orgCalls, notifyCalls,
                   redo, tasksCreated, crashed, stopped, ticks,
                   stopping, otherVars>>

\* lines 125-127: skip a torrent that is already processed
LoopSkipProcessed ==
    /\ task = "running" /\ ~stopping /\ pc = "loop"
    /\ torrents # <<>>
    /\ IsProcessed(Head(torrents))
    /\ torrents' = Tail(torrents)
    /\ UNCHANGED <<processed_hashes, dbFile, monitoring, task, pc, connected,
                   cur, organizerRuns, log, orgCalls, notifyCalls, redo,
                   tasksCreated, crashed, stopped, ticks,
                   stopping, otherVars>>

\* line 131 false: a torrent that is not complete is passed over
LoopSkipIncomplete ==
    /\ task = "running" /\ ~stopping /\ pc = "loop"
    /\ torrents # <<>>
    /\ ~IsProcessed(Head(torrents))
    /\ ~IsCompleted(Head(torrents))
    /\ torrents' = Tail(torrents)
    /\ UNCHANGED <<processed_hashes, dbFile, monitoring, task, pc, connected,
                   cur, organizerRuns, log, orgCalls, notifyCalls, redo,
                   tasksCreated, crashed, stopped, ticks,
                   stopping, otherVars>>

\* the mark taken before the organizer is started
OrganizeBeginMarkFirst ==
    /\ task = "running" /\ ~stopping /\ pc = "loop"
    /\ torrents # <<>>
    /\ ~IsProcessed(Head(torrents))
    /\ IsCompleted(Head(torrents))
    /\ processed_hashes' = processed_hashes \cup {Head(torrents).hash}
    /\ \E w \in WriteOutcomes :
         dbFile' = SaveProcessedHashes(dbFile, processed_hashes \cup {Head(torrents).hash}, w)
    /\ cur' = Head(torrents)
    /\ torrents' = Tail(torrents)
    /\ orgCalls' = [orgCalls EXCEPT ![Head(torrents).hash] = @ + 1]
    /\ organizerRuns' = organizerRuns + 1
    /\ pc' = "organize"
    /\ UNCHANGED <<monitoring, task, connected, log, notifyCalls, redo,
                   tasksCreated, crashed, stopped, ticks,
                   stopping, otherVars>>

\* lines 131-136: a completed, unprocessed torrent; _organize_download hands
\* the organizer to the worker pool and the task awaits it
OrganizeBegin ==
    /\ task = "running" /\ ~stopping /\ pc = "loop"
    /\ torrents # <<>>
    /\ ~IsProcessed(Head(torrents))
    /\ IsCompleted(Head(torrents))
    /\ cur' = Head(torrents)
    /\ torrents' = Tail(torrents)
    /\ orgCalls' = [orgCalls EXCEPT ![Head(torrents).hash] = @ + 1]
    /\ organizerRuns' = organizerRuns + 1
    /\ pc' = "organize"
    /\ UNCHANGED <<processed_hashes, dbFile, monitoring, task, connected, log,
                   notifyCalls, redo, tasksCreated, crashed, stopped, ticks,
                   stopping, otherVars>>

\* the mark left out: nothing is added and nothing is written
MarkProcessedForgets ==
    /\ processed_hashes' = processed_hashes
    /\ dbFile' = dbFile

\* lines 143-144: self.processed_hashes.add(hash); self._save_processed_hashes()
MarkProcessed ==
    /\ processed_hashes' = processed_hashes \cup {cur.hash}
    /\ \E w \in WriteOutcomes :
         dbFile' = SaveProcessedHashes(dbFile, processed_hashes \cup {cur.hash}, w)

\* The organizer run returns (success, non-zero exit or an exception that
\* _organize_download swallows) and _notify_bot_completion is called.  It
\* finds no approval, or no cog, or no message handle, and returns without
\* awaiting; the torrent is marked processed.
NotifyAbsent ==
    /\ task = "running" /\ ~stopping /\ pc = "organize"
    /\ organizerRuns' = organizerRuns - 1
    /\ notifyCalls' = [notifyCalls EXCEPT ![cur.hash] = @ + 1]
    /\ MarkProcessed
    /\ cur' = NoTorrent
    /\ pc' = "loop"
    /\ UNCHANGED <<monitoring, task, connected, torrents, log, orgCalls, redo,
                   tasksCreated, crashed, stopped, ticks,
                   stopping, otherVars>>

\* ... it finds the approval and awaits the chat platform (fetch_channel)
NotifyFound ==
    /\ task = "running" /\ ~stopping /\ pc = "organize"
    /\ organizerRuns' = organizerRuns - 1
    /\ notifyCalls' = [notifyCalls EXCEPT ![cur.hash] = @ + 1]
    /\ pc' = "notify"
    /\ UNCHANGED <<processed_hashes, dbFile, monitoring, task, connected,
                   torrents, cur, log, orgCalls, redo, tasksCreated, crashed, stopped, ticks,
                   stopping, otherVars>>

\* ... the lookup (lines 184-196, outside any try) raises, on an approval
\* that is no object: the exception leaves the for loop and is caught at
\* line 147
NotifyRaised ==
    /\ task = "running" /\ ~stopping /\ pc = "organize"
    /\ organizerRuns' = organizerRuns - 1
    /\ notifyCalls' = [notifyCalls EXCEPT ![cur.hash] = @ + 1]
    /\ redo' = redo \cup {cur.hash}
    /\ torrents' = <<>>
    /\ cur' = NoTorrent
    /\ pc' = OnTickError
    /\ UNCHANGED <<processed_hashes, dbFile, monitoring, task, connected, log,
                   orgCalls, tasksCreated, crashed, stopped, ticks,
                   stopping, otherVars>>

\* the message update and the library scan end (every failure in lines
\* 213-263 is logged and swallowed); the torrent is marked processed
NotifyReturn ==
    /\ task = "running" /\ ~stopping /\ pc = "notify"
    /\ MarkProcessed
    /\ cur' = NoTorrent
    /\ pc' = "loop"
    /\ UNCHANGED <<monitoring, task, connected, torrents, organizerRuns, log,
                   orgCalls, notifyCalls, redo, tasksCreated, crashed, stopped, ticks,
                   stopping, otherVars>>

\* asyncio.sleep returns; while self.monitoring: the next tick calls connect,
\* with its local `connected` not yet bound
SleepWake ==
    /\ task = "running" /\ ~stopping /\ pc = "sleep"
    /\ IF monitoring
       THEN /\ pc' = "connect"
            /\ task' = task
       ELSE /\ pc' = "done"
            /\ task' = "finished"
    /\ connected' = FALSE
    /\ UNCHANGED <<processed_hashes, dbFile, monitoring, torrents,
                   cur, organizerRuns, log, orgCalls, notifyCalls, redo,
                   tasksCreated, crashed, stopped, ticks,
                   stopping, otherVars>>

\* ------------------------------------------- from a completed job to its request

\* str.lower, word by word
Lower(w) ==
    CASE w = "Dune"    -> "dune"
      [] w = "Messiah" -> "messiah"
      [] OTHER         -> w

LowerStr(t) == [i \in DOMAIN t |-> Lower(t[i])]

\* Python's `a in b` on strings: a occurs in b as a contiguous piece
Contains(a, b) ==
    \E i \in 0..(Len(b) - Len(a)) : SubSeq(b, i + 1, i + Len(a)) = a

\* the fields of lookup
all_approvals == lookup.all_approvals       \* get_all_approvals(), in dict order
books == lookup.books                       \* book.title of each user's request
pending_requests == lookup.pending_requests \* keys of self.pending_requests
found == lookup.found       \* last lookup of the notifier: hash, record found
matched == lookup.matched   \* last on_download_completed: job, request updated

\* an approval record as the notifier reads it; torrent_hash 0 is None
Approvals ==
    [book_title : Titles, torrent_hash : 0..NumRequests]

NoneFound == [hash |-> 0, index |-> 0]
NoneMatched == [job |-> 0, request |-> 0]

\* qbit_monitor.py lines 193-200: the first approval, in dict order from the
\* i-th on, whose stored hash is set and equals the hash asked for; 0 when
\* there is none
RECURSIVE ScanApprovals(_, _, _)
ScanApprovals(apps, h, i) ==
    IF i > Len(apps) THEN 0
    ELSE IF apps[i].torrent_hash # 0 /\ apps[i].torrent_hash = h THEN i
    ELSE ScanApprovals(apps, h, i + 1)

\* user_message.content of a request message: it is sent with an embed and
\* a view and no text
RequestMessageContent == <<>>

\* discord_commands.py lines 950-951: the test of on_download_completed
NameMatches(name, r) ==
    \/ Contains(LowerStr(name), LowerStr(RequestMessageContent))
    \/ Contains(LowerStr(books[r]), LowerStr(name))

\* lines 938-997: the first pending request, in dict order, that the test
\* accepts; 0 when there is none
FirstMatch(name) ==
    IF \E r \in pending_requests : NameMatches(name, r)
    THEN CHOOSE r \in pending_requests :
            /\ NameMatches(name, r)
            /\ \A q \in pending_requests : NameMatches(name, q) => r <= q
    ELSE 0

\* no request is tracked
LookupIdle ==
    lookup = [all_approvals |-> <<>>, books |-> <<>>, pending_requests |-> {},
              found |-> NoneFound, matched |-> NoneMatched]

\* every request is tracked: user r has asked for a book and is waiting, and
\* the approvals hold one record per request, with any hash or none stored
LookupTracked ==
    \E apps \in [Requests -> Approvals] :
        lookup = [all_approvals |-> apps,
                  books |-> [r \in Requests |-> apps[r].book_title],
                  pending_requests |-> Requests,
                  found |-> NoneFound, matched |-> NoneMatched]

\* _notify_bot_completion looks up the approval of the completed torrent h
Lookup(h) ==
    /\ lookup' = [lookup EXCEPT
            !.found = [hash |-> h, index |-> ScanApprovals(all_approvals, h, 1)]]
    /\ UNCHANGED <<pollerVars, approve, ledger, job, desk, wait>>

NotifierLookup == \E h \in Requests : Lookup(h)

\* on_download_completed is called with the name of the torrent of job j,
\* a name that holds the title of the book the job was requested for; the
\* message of the first request the test accepts is updated and the request
\* is dropped from pending_requests
OnDownloadCompleted ==
    \E j \in Requests, name \in Titles :
        /\ Contains(LowerStr(books[j]), LowerStr(name))
        /\ lookup' = [lookup EXCEPT
                !.matched = [job |-> j, request |-> FirstMatch(name)],
                !.pending_requests = @ \ {FirstMatch(name)}]
        /\ UNCHANGED <<pollerVars, approve, ledger, job, desk, wait>>

\* ------------------------------------------------------- approval workflow

Seeders == {12, 50}

\* a release as _parse_search_results keeps it: results with no download
\* URL are dropped, so every candidate has one; candidate i of a search has
\* URL i, and the torrent behind URL i has hash i
CandidateLists ==
    UNION {[1..n -> Seeders] : n \in 1..MaxCandidates}

\* max(prowlarr_results, key=lambda x: x.seeders): the first of the
\* candidates with the most seeders
MaxSeeders(l) ==
    CHOOSE i \in DOMAIN l :
        \A k \in DOMAIN l : l[k] < l[i] \/ (l[k] = l[i] /\ i <= k)

\* AdminApprovalView.__init__: self.selected_torrent = self.torrent_results[0]
ViewDefault(l) == 1

Clicks == 1..MaxClicks

\* the fields of approve
torrent_results == approve.torrent_results   \* view.torrent_results, in search order
best_result == approve.best_result           \* index of best_result
selected_torrent == approve.selected_torrent \* index of view.selected_torrent
touched == approve.touched      \* history: the admin has used the selector
listening == approve.listening  \* the view is not stopped: clicks are dispatched
result == approve.result        \* view.result
handlers == approve.handlers    \* the callback task of each click

\* pc: the await the callback is suspended at; torrent: the release the
\* on_approve lambda read from the view at the click; default: the selector
\* had not been used by then; called: add_torrent has been called; hash:
\* what it returned (0 is None); said: the reply sent to the admin
IdleHandler ==
    [pc |-> "none", torrent |-> 0, default |-> FALSE, called |-> FALSE,
     hash |-> 0, said |-> "none"]

\* no request is waiting for a decision
ApproveIdle ==
    approve = [torrent_results |-> <<>>, best_result |-> 0,
               selected_torrent |-> 0, touched |-> FALSE, listening |-> FALSE,
               result |-> "none", handlers |-> <<>>]

\* _show_book_request and _send_admin_approval have run for one request:
\* the search has returned its candidates, in any order, and the admin
\* message with its view is in the admin channel
ApproveRequested ==
    \E l \in CandidateLists :
        approve = [torrent_results |-> l, best_result |-> MaxSeeders(l),
                   selected_torrent |-> ViewDefault(l), touched |-> FALSE,
                   listening |-> TRUE, result |-> "none",
                   handlers |-> [c \in Clicks |-> IdleHandler]]

\* the next click: clicks are numbered in the order they are delivered
NextClick(c) ==
    /\ handlers[c].pc = "none"
    /\ \A b \in Clicks : b < c => handlers[b].pc # "none"

\* IndexerSelect.callback: the admin picks candidate i in the selector (the
\* selector is there when there is more than one candidate)
SelectIndexer ==
    \E i \in DOMAIN torrent_results :
        /\ listening
        /\ Len(torrent_results) > 1
        /\ selected_torrent # i
        /\ approve' = [approve EXCEPT !.selected_torrent = i, !.touched = TRUE]
        /\ UNCHANGED <<pollerVars, lookup, ledger, job, desk, wait>>

\* An admin clicks Approve: ApprovalButton.callback, handle_approve and the
\* on_approve lambda, which reads view.selected_torrent; the handler runs up
\* to `await interaction.response.defer()`
ApproveClick ==
    \E c \in Clicks :
        /\ listening
        /\ NextClick(c)
        /\ approve' = [approve EXCEPT
                !.handlers[c].pc = "defer",
                !.handlers[c].torrent = selected_torrent,
                !.handlers[c].default = ~touched]
        /\ UNCHANGED <<pollerVars, lookup, ledger, job, desk, wait>>

\* defer returns; lines 695-702: the handler awaits user_message.edit
ApproveDeferred ==
    \E c \in Clicks :
        /\ handlers[c].pc = "defer"
        /\ approve' = [approve EXCEPT !.handlers[c].pc = "edit"]
        /\ UNCHANGED <<pollerVars, lookup, ledger, job, desk, wait>>

\* the edit returns or fails (swallowed); lines 704-748: add_torrent is
\* called with the URL of the handler's release and returns the hash of the
\* new torrent or None; the value is dropped, and the handler awaits
\* user.send
ApproveSubmit ==
    \E c \in Clicks, ok \in BOOLEAN :
        /\ handlers[c].pc = "edit"
        /\ approve' = [approve EXCEPT
                !.handlers[c].pc = "dm",
                !.handlers[c].called = TRUE,
                !.handlers[c].hash = IF ok THEN handlers[c].torrent ELSE 0]
        /\ UNCHANGED <<pollerVars, lookup, ledger, job, desk, wait>>

\* user.send returns or fails (swallowed); lines 752-757: the handler sends
\* "Download started" to the admin and awaits the send
ApproveConfirm ==
    \E c \in Clicks :
        /\ handlers[c].pc = "dm"
        /\ approve' = [approve EXCEPT
                !.handlers[c].pc = "confirm",
                !.handlers[c].said = "download_started"]
        /\ UNCHANGED <<pollerVars, lookup, ledger, job, desk, wait>>

\* _handle_admin_approve returns; handle_approve lines 392-393 set
\* self.result = "approved" and stop the view
ApproveFinish ==
    \E c \in Clicks :
        /\ handlers[c].pc = "confirm"
        /\ approve' = [approve EXCEPT
                !.handlers[c].pc = "done",
                !.result = "approved",
                !.listening = FALSE]
        /\ UNCHANGED <<pollerVars, lookup, ledger, job, desk, wait>>

\* An admin clicks Deny: handle_deny and _handle_admin_deny up to its first
\* await; none of its awaits changes the view or the download client
DenyClick ==
    \E c \in Clicks :
        /\ listening
        /\ NextClick(c)
        /\ approve' = [approve EXCEPT !.handlers[c].pc = "denying"]
        /\ UNCHANGED <<pollerVars, lookup, ledger, job, desk, wait>>

\* _handle_admin_deny returns; handle_deny sets the result and stops the view
DenyFinish ==
    \E c \in Clicks :
        /\ handlers[c].pc = "denying"
        /\ approve' = [approve EXCEPT
                !.handlers[c].pc = "done",
                !.handlers[c].said = "denied",
                !.result = "denied",
                !.listening = FALSE]
        /\ UNCHANGED <<pollerVars, lookup, ledger, job, desk, wait>>

\* The poller sees a torrent that an approve has submitted complete, and
\* its notifier looks for the approval that stores the torrent's hash
CompletionObserved ==
    \E c \in Clicks :
        /\ handlers[c].hash # 0
        /\ Lookup(handlers[c].hash)

\* ------------------------------------------------------------ JSON stores

NumKeys == 2

\* approval ids, message ids and torrent hashes handed to the stores
Keys == 1..NumKeys

\* PendingApprovalsDB, RequestTrackingDB, BookRequestsDB and the poller's
\* processed set with its file
StoreKinds == {"approvals", "tracking", "books", "processed"}

\* the fields of ledger
kind == ledger.kind     \* which store it is
store == ledger.store   \* self.data (self.processed_hashes): typed says that
                        \* the value is a dict (a set), rows is its content
file == ledger.file     \* the backing file
op == ledger.op         \* the last call made on the store
ret == ledger.ret       \* what the call returned
write == ledger.write   \* what became of the call's write; "none": no write
failed == ledger.failed \* history: a write has failed since the construction
twin == ledger.twin     \* history, kept for a store that was constructed
                        \* without a valid file: the store and the return
                        \* value of a fresh store given the same calls

\* str(user_message_id)
Str(n) == <<n>>

\* an empty isbn or title: None or ""
NoString == <<>>

Isbns == {<<"9780441013593">>}

BookTitles == {<<"Dune">>, <<"dune">>}

\* the keys a store of each kind can hold
KeysOf(k) ==
    CASE k = "tracking" -> {Str(n) : n \in Keys}
      [] k = "books"    -> Isbns \cup {LowerStr(t) : t \in BookTitles}
      [] OTHER          -> Keys

\* the record an add call stores
NewRecord(k) ==
    IF k = "tracking"
    THEN [status |-> "pending", admin_message_id |-> "None"]
    ELSE [status |-> "pending"]

\* the records the calls can bring about
Records(k) ==
    CASE k = "approvals" -> [status : {"pending", "approved", "denied"}]
      [] k = "tracking"  -> [status : {"pending", "approved"},
                             admin_message_id : {"None", "linked"}]
      [] k = "books"     -> [status : {"pending", "completed"}]

\* the contents a store of each kind can have
Rows(k) ==
    IF k = "processed"
    THEN SUBSET Keys
    ELSE UNION {[D -> Records(k)] : D \in SUBSET KeysOf(k)}

Typed(rows) == [typed |-> TRUE, rows |-> rows]

\* self.data = {} (self.processed_hashes = set())
EmptyStore(k) == Typed(IF k = "processed" THEN {} ELSE <<>>)

\* self.data when json.load has returned a list, a string, a number or null
NotADict == [typed |-> FALSE, rows |-> <<>>]

\* json.dump of a dict: the text holds one member per key
Dump(rows) == {<<x, rows[x]>> : x \in DOMAIN rows}

\* json.load of such a text
Parse(text) ==
    [x \in {m[1] : m \in text} |-> (CHOOSE m \in text : m[1] = x)[2]]

MissingFile == [status |-> "missing", text |-> {}]

\* the files a store can find when it is constructed: none, one that is no
\* JSON, one that is JSON but no object, and one that a store has written
Files(k) ==
    IF k = "processed"
    THEN [status : {"missing", "corrupt"}, hashes : {{}}]
         \cup [status : {"valid"}, hashes : Rows(k)]
    ELSE {MissingFile}
         \cup [status : {"corrupt", "malformed"}, text : {{}}]
         \cup {[status |-> "valid", text |-> Dump(rows)] : rows \in Rows(k)}

\* _load of the three JSON stores: json.load's value is returned as it is,
\* and a missing or unparseable file gives {}
LoadData(f) ==
    CASE f.status = "valid"     -> Typed(Parse(f.text))
      [] f.status = "malformed" -> NotADict
      [] OTHER                  -> Typed(<<>>)

\* _save with only the records of the old file that are still in the store
\* rewritten
SaveDataOldKeys(f, s, w) ==
    CASE w = "ok" ->
            [status |-> "valid",
             text |-> {m \in Dump(s.rows) : m[1] \in {n[1] : n \in f.text}}]
      [] w = "unchanged" -> f
      [] w = "corrupt"   -> [status |-> "corrupt", text |-> {}]

\* _save of the three JSON stores: the whole dict is dumped over the file;
\* an exception is logged and swallowed
SaveData(f, s, w) ==
    CASE w = "ok"        -> [status |-> "valid", text |-> Dump(s.rows)]
      [] w = "unchanged" -> f
      [] w = "corrupt"   -> [status |-> "corrupt", text |-> {}]

LoadStore(k, f) ==
    IF k = "processed" THEN Typed(LoadProcessedHashes(f)) ELSE LoadData(f)

SaveStore(k, f, s, w) ==
    IF k = "processed"
    THEN SaveProcessedHashes(f, s.rows, w)
    ELSE SaveData(f, s, w)

\* what a call leaves: the store, the value returned, and whether it has
\* called _save
Outcome(s, r, saves) == [store |-> s, ret |-> r, saves |-> saves]

\* `return False`, from the test of the key or from the except clause
ReturnFalse(s) == Outcome(s, "False", FALSE)

\* key in self.data, where self.data is a dict
Has(s, x) == s.typed /\ x \in DOMAIN s.rows

\* self.data[x] = r
Put(s, x, r) ==
    Typed([y \in DOMAIN s.rows \cup {x} |-> IF y = x THEN r ELSE s.rows[y]])

\* del self.data[x]
Del(s, x) == Typed([y \in DOMAIN s.rows \ {x} |-> s.rows[y]])

\* add_approval; on a value that is no dict the assignment raises TypeError
\* and the except clause returns False
add_approval(s, id) ==
    IF s.typed
    THEN Outcome(Put(s, id, NewRecord("approvals")), "True", TRUE)
    ELSE ReturnFalse(s)

\* update_approval that creates the record it does not find
update_approval_upsert(s, id, status) ==
    IF s.typed
    THEN Outcome(Put(s, id, [status |-> status]), "True", TRUE)
    ELSE ReturnFalse(s)

update_approval(s, id, status) ==
    IF Has(s, id)
    THEN Outcome(Put(s, id, [s.rows[id] EXCEPT !.status = status]),
                 "True", TRUE)
    ELSE ReturnFalse(s)

remove_approval(s, id) ==
    IF Has(s, id) THEN Outcome(Del(s, id), "True", TRUE) ELSE ReturnFalse(s)

add_request_message(s, m) ==
    IF s.typed
    THEN Outcome(Put(s, Str(m), NewRecord("tracking")), "True", TRUE)
    ELSE ReturnFalse(s)

link_admin_message(s, m) ==
    IF Has(s, Str(m))
    THEN Outcome(Put(s, Str(m),
                     [s.rows[Str(m)] EXCEPT !.admin_message_id = "linked"]),
                 "True", TRUE)
    ELSE ReturnFalse(s)

update_status(s, m, status) ==
    IF Has(s, Str(m))
    THEN Outcome(Put(s, Str(m), [s.rows[Str(m)] EXCEPT !.status = status]),
                 "True", TRUE)
    ELSE ReturnFalse(s)

\* add_request: key = isbn if isbn else book_title.lower()
add_request(s, isbn, title) ==
    IF s.typed
    THEN Outcome(Put(s, IF isbn # NoString THEN isbn ELSE LowerStr(title),
                     NewRecord("books")),
                 "True", TRUE)
    ELSE ReturnFalse(s)

\* mark_complete: the isbn if it is a key of the store, else the lower-cased
\* title
mark_complete(s, isbn, title, status) ==
    LET key == IF isbn # NoString /\ Has(s, isbn) THEN isbn
               ELSE IF title # NoString THEN LowerStr(title)
               ELSE NoString
    IN  IF key # NoString /\ Has(s, key)
        THEN Outcome(Put(s, key, [s.rows[key] EXCEPT !.status = status]),
                     "True", TRUE)
        ELSE ReturnFalse(s)

\* self.processed_hashes.add(torrent_hash); self._save_processed_hashes()
mark_processed(s, h) == Outcome(Typed(s.rows \cup {h}), "None", TRUE)

\* the calls that can be made on a store of each kind; status is the status
\* argument of the methods that take one
Calls(k) ==
    CASE k = "approvals" ->
            [name : {"add_approval", "remove_approval"},
             id : Keys, title : {NoString}, status : {"none"}]
            \cup [name : {"update_approval"}, id : Keys, title : {NoString},
                  status : {"approved", "denied"}]
      [] k = "tracking" ->
            [name : {"add_request_message", "link_admin_message"},
             id : Keys, title : {NoString}, status : {"none"}]
            \cup [name : {"update_status"}, id : Keys, title : {NoString},
                  status : {"approved"}]
      [] k = "books" ->
            [name : {"add_request"},
             id : Isbns \cup {NoString}, title : BookTitles,
             status : {"none"}]
            \cup [name : {"mark_complete"},
                  id : Isbns \cup {NoString},
                  title : BookTitles \cup {NoString},
                  status : {"completed"}]
      [] k = "processed" ->
            [name : {"mark_processed"}, id : Keys, title : {NoString},
             status : {"none"}]

\* the call o made on the store s
Apply(o, s) ==
    CASE o.name = "add_approval"        -> add_approval(s, o.id)
      [] o.name = "update_approval"     -> update_approval(s, o.id, o.status)
      [] o.name = "remove_approval"     -> remove_approval(s, o.id)
      [] o.name = "add_request_message" -> add_request_message(s, o.id)
      [] o.name = "link_admin_message"  -> link_admin_message(s, o.id)
      [] o.name = "update_status"       -> update_status(s, o.id, o.status)
      [] o.name = "add_request"         -> add_request(s, o.id, o.title)
      [] o.name = "mark_complete"       ->
            mark_complete(s, o.id, o.title, o.status)
      [] o.name = "mark_processed"      -> mark_processed(s, o.id)

NoTwin == [tracked |-> FALSE]

Construct ==
    [name |-> "__init__", id |-> NoString, title |-> NoString,
     status |-> "none"]

\* __init__ of a store of kind k that finds the file f
Constructed(k, f) ==
    [kind |-> k, store |-> LoadStore(k, f), file |-> f,
     op |-> Construct, ret |-> "None", write |-> "none", failed |-> FALSE,
     twin |-> IF f.status = "valid"
              THEN NoTwin
              ELSE [tracked |-> TRUE, store |-> EmptyStore(k),
                    ret |-> "None"]]

\* no store is under study
LedgerIdle == ledger = [kind |-> "none"]

\* a store has been constructed over any file
LedgerConstructed ==
    \E k \in StoreKinds : \E f \in Files(k) : ledger = Constructed(k, f)

\* One call on the store: the method runs to its return, its write, if it
\* makes one, ending in any of the write outcomes
Call ==
    \E o \in Calls(kind) :
        LET out == Apply(o, store) IN
        \E w \in IF out.saves THEN WriteOutcomes ELSE {"none"} :
            /\ ledger' = [ledger EXCEPT
                    !.store = out.store,
                    !.file = IF out.saves
                             THEN SaveStore(kind, file, out.store, w)
                             ELSE file,
                    !.op = o,
                    !.ret = out.ret,
                    !.write = w,
                    !.failed = @ \/ w \in {"unchanged", "corrupt"},
                    !.twin = IF twin.tracked
                             THEN [tracked |-> TRUE,
                                   store |-> Apply(o, twin.store).store,
                                   ret |-> Apply(o, twin.store).ret]
                             ELSE twin]
            /\ UNCHANGED <<pollerVars, lookup, approve, job, desk, wait>>

\* The process ends and a new one constructs the store over the file that
\* is there
Reconstruct ==
    /\ ledger' = Constructed(kind, file)
    /\ UNCHANGED <<pollerVars, lookup, approve, job, desk, wait>>

\* ------------------------------------------------- one job through a tick

\* Config.DOWNLOAD_CATEGORY can be set to any name; its default is the first
Categories == {"librarian-bot", "books"}

\* line 119: the literal handed to get_torrents_in_category
PolledCategory == "librarian-bot"

\* how a run of _run_organizer_ssh ends: the command exits with 0, it exits
\* with another code, the SSH channel cannot be set up (ssh.connect or a
\* later call raises), or the credentials are not configured
OrganizerOutcomes == {"ok", "nonzero_exit", "channel_failed", "not_configured"}

\* _run_organizer_ssh and _run_organizer: an exception is logged and raised
\* again; every other end, a non-zero exit status included, returns
RunOrganizer(o) == IF o = "channel_failed" THEN "raised" ELSE "returned"

\* _organize_download: the awaited run is inside try/except Exception, so
\* the call returns whether the run has returned or raised
OrganizeDownload(o) ==
    CASE RunOrganizer(o) = "raised"   -> "returned"
      [] RunOrganizer(o) = "returned" -> "returned"

\* get_torrents_in_category(category): the torrents whose category equals the
\* argument; ok is FALSE when the fetch raises, and the list is empty
InCategoryList(c, category, ok) == ok /\ c = category

\* the fields of job
JobTorrent == [hash |-> 1, state |-> state_map(job.view[1]),
               progress |-> job.view[2]]

\* the torrent is in the category that add_torrent assigns
Managed == job.category = job.configured

\* no torrent is followed
JobIdle == job = [pc |-> "none"]

\* The poller has been started, with or without a restart before; the client
\* holds one torrent, in any state and any category, and the approvals hold a
\* record for it (with the handles of the user's message), hold none, or
\* hold a record that is no object ahead of it.
JobListed ==
    \E v \in Views, c \in Categories, d \in Categories,
       a \in {"found", "absent", "malformed"} :
        job = [pc |-> "connect", view |-> v, category |-> c, configured |-> d,
               approvals |-> a, organizer |-> "none", edit |-> "none",
               scan |-> "none", processed |-> FALSE]

\* lines 143-144 and the end of the tick
JobMarked == [job EXCEPT !.processed = TRUE, !.pc = "sleep"]

\* the executor returns from qbit.connect
JobConnect(ok) ==
    /\ job.pc = "connect"
    /\ job' = [job EXCEPT !.pc = AfterConnect(ok)]
    /\ UNCHANGED <<pollerVars, lookup, approve, ledger, desk, wait>>

\* the executor returns from get_torrents_in_category and the for loop runs:
\* a torrent that is listed, not processed and complete is organized
JobList(ok) ==
    /\ job.pc = "list"
    /\ job' = [job EXCEPT !.pc =
            IF /\ InCategoryList(job.category, PolledCategory, ok)
               /\ ~job.processed
               /\ IsCompleted(JobTorrent)
            THEN "organize" ELSE "sleep"]
    /\ UNCHANGED <<pollerVars, lookup, approve, ledger, desk, wait>>

\* the organizer run ends and _organize_download is left; lines 139-140 call
\* the notifier, whose lookup returns at once, raises, or finds the approval
\* and awaits the fetch and the edit of the user's message
JobOrganized ==
    \E o \in OrganizerOutcomes :
        /\ job.pc = "organize"
        /\ job' =
             IF OrganizeDownload(o) = "raised" \/ job.approvals = "malformed"
             THEN [job EXCEPT !.organizer = o, !.pc = OnTickError]
             ELSE IF job.approvals = "found"
             THEN [job EXCEPT !.organizer = o, !.pc = "edit"]
             ELSE [JobMarked EXCEPT !.organizer = o]
        /\ UNCHANGED <<pollerVars, lookup, approve, ledger, desk, wait>>

\* lines 213-247: the message is fetched and edited; a failure of either is
\* caught at line 262 and a message without embeds is logged at line 261:
\* the notifier returns and the torrent is marked; after the edit the
\* notifier awaits trigger_library_scan
JobEdited ==
    \E e \in {"ok", "failed", "no_embeds"} :
        /\ job.pc = "edit"
        /\ job' = IF e = "ok"
                  THEN [job EXCEPT !.edit = e, !.pc = "scan"]
                  ELSE [JobMarked EXCEPT !.edit = e]
        /\ UNCHANGED <<pollerVars, lookup, approve, ledger, desk, wait>>

\* lines 250-257: the scan call returns True or False or raises (caught);
\* the notifier returns and the torrent is marked
JobScanned ==
    \E r \in {"ok", "failed", "raised"} :
        /\ job.pc = "scan"
        /\ job' = [JobMarked EXCEPT !.scan = r]
        /\ UNCHANGED <<pollerVars, lookup, approve, ledger, desk, wait>>

\* asyncio.sleep returns and the next tick begins
JobWake ==
    /\ job.pc = "sleep"
    /\ job' = [job EXCEPT !.pc = "connect", !.organizer = "none",
                          !.edit = "none", !.scan = "none"]
    /\ UNCHANGED <<pollerVars, lookup, approve, ledger, desk, wait>>

\* ------------------------------------------------- the users' requests

Users == 1..NumUsers

\* no request has been made; self.pending_requests is not in use
DeskIdle == desk = [pc |-> "none"]

\* user: who opened request r (0: not opened); the status message created
\* for request r is message r.  pending: self.pending_requests, the
\* "message" of the entry under each user id (0: no entry).  pc: where the
\* decision of r stands; decision: the button the admin clicked; edited:
\* the user message the decision's handler edited (0: none)
DeskOpen ==
    desk = [user     |-> [r \in Requests |-> 0],
            pending  |-> [u \in Users |-> 0],
            pc       |-> [r \in Requests |-> "none"],
            decision |-> [r \in Requests |-> "none"],
            edited   |-> [r \in Requests |-> 0]]

\* requests are numbered in the order they are opened
NextRequest(r) ==
    /\ desk.user[r] = 0
    /\ \A q \in Requests : q < r => desk.user[q] # 0

\* self.pending_requests[user.id] = {..., "message": message}
StoreByUser(pending, u, r) == [pending EXCEPT ![u] = r]

\* self.pending_requests[user.id].get("message"), when user.id is a key
MessageOf(pending, u) == pending[u]

\* _show_book_request for user u: the status message of the request is
\* there; the search returns nothing and the handler returns, or the entry
\* of the user is stored and the admin message is sent with its view
ShowBookRequest ==
    \E r \in Requests, u \in Users, results \in BOOLEAN :
        /\ NextRequest(r)
        /\ desk' = IF results
                   THEN [desk EXCEPT !.user[r] = u,
                                     !.pending = StoreByUser(@, u, r),
                                     !.pc[r] = "waiting"]
                   ELSE [desk EXCEPT !.user[r] = u, !.pc[r] = "no_results"]
        /\ UNCHANGED <<pollerVars, lookup, approve, ledger, job, wait>>

\* the admin clicks Approve or Deny on the admin message of request r; the
\* handler, bound to the user and the book of r, awaits
\* interaction.response.defer()
AdminClick ==
    \E r \in Requests, d \in {"approved", "denied"} :
        /\ desk.pc[r] = "waiting"
        /\ desk' = [desk EXCEPT !.pc[r] = "defer", !.decision[r] = d]
        /\ UNCHANGED <<pollerVars, lookup, approve, ledger, job, wait>>

\* defer returns: lines 695-700 (approve) and 776-781 (deny) edit the
\* message of the entry stored under the user's id, when there is one
AdminEditsUserMessage ==
    \E r \in Requests :
        /\ desk.pc[r] = "defer"
        /\ desk' = [desk EXCEPT
                !.pc[r] = "done",
                !.edited[r] = MessageOf(desk.pending, desk.user[r])]
        /\ UNCHANGED <<pollerVars, lookup, approve, ledger, job, wait>>

\* on_download_completed, line 996: the download of an approved request
\* has completed and the entry of its user is deleted
PendingDropped ==
    \E r \in Requests :
        /\ desk.pc[r] = "done" /\ desk.decision[r] = "approved"
        /\ desk.pending[desk.user[r]] # 0
        /\ desk' = [desk EXCEPT !.pending[desk.user[r]] = 0]
        /\ UNCHANGED <<pollerVars, lookup, approve, ledger, job, wait>>

\* -------------------------------------------------- wait_for_completion

\* timeout=None, the default of wait_for_completion
NoTimeout == -1

\* the timeout argument, in seconds
Timeouts == {NoTimeout} \cup (0..MaxTimeout)

\* the poll_interval argument (Config.QBIT_POLL_INTERVAL by default)
PollIntervals == 0..MaxInterval

\* elapsed is followed up to the first value that no timeout exceeds
MaxElapsed == MaxTimeout + MaxInterval

\* bool(timeout): None and 0 are false
Truthy(t) == t # NoTimeout /\ t # 0

\* line 394: `if timeout and elapsed >= timeout`
TimedOut(t, e) == Truthy(t) /\ e >= t

\* what get_torrent returns at a poll: None, or the torrent with progress
\* below 1.0 or not
Observations == {"missing", "incomplete", "complete"}

\* no call of wait_for_completion
WaitIdle == wait = [pc |-> "none"]

\* wait_for_completion has been called and is at the top of its loop with
\* elapsed = 0; polls counts the calls of get_torrent and seen is what the
\* last one returned
WaitCalled ==
    \E t \in Timeouts, i \in PollIntervals :
        wait = [pc |-> "check", timeout |-> t, poll_interval |-> i,
                elapsed |-> 0, polls |-> 0, seen |-> "none", ret |-> "none"]

\* lines 393-411, one pass of the loop body up to its await or its return
WaitPoll ==
    \E seen \in Observations :
        /\ wait.pc = "check"
        /\ wait' =
             IF TimedOut(wait.timeout, wait.elapsed)
             THEN [wait EXCEPT !.pc = "returned", !.ret = "None"]
             ELSE [wait EXCEPT
                     !.polls = IF @ < MaxElapsed THEN @ + 1 ELSE @,
                     !.seen = seen,
                     !.pc = IF seen = "incomplete" THEN "sleep" ELSE "returned",
                     !.ret = CASE seen = "missing"    -> "None"
                               [] seen = "complete"   -> "torrent_info"
                               [] seen = "incomplete" -> "none"]
        /\ UNCHANGED <<pollerVars, lookup, approve, ledger, job, desk>>

\* lines 413-415: asyncio.sleep returns and elapsed is advanced
WaitSleepReturns ==
    /\ wait.pc = "sleep"
    /\ wait' = [wait EXCEPT
            !.pc = "check",
            !.elapsed = IF @ + wait.poll_interval < MaxElapsed
                        THEN @ + wait.poll_interval ELSE MaxElapsed]
    /\ UNCHANGED <<pollerVars, lookup, approve, ledger, job, desk>>

\* ----------------------------------------------------------- specifications

Init ==
    /\ PollerInit
    /\ LookupIdle
    /\ ApproveIdle
    /\ LedgerIdle
    /\ JobIdle
    /\ DeskIdle
    /\ WaitIdle

Next ==
    \/ Start
    \/ Watchdog
    \/ Stop
    \/ StopReturn
    \/ OrphanFinish
    \/ Restart
    \/ TickConnect
    \/ TickList
    \/ LoopEnd
    \/ LoopSkipProcessed
    \/ LoopSkipIncomplete
    \/ OrganizeBegin
    \/ NotifyAbsent
    \/ NotifyFound
    \/ NotifyRaised
    \/ NotifyReturn
    \/ SleepWake

Spec == Init /\ [][Next]_vars

LookupInit ==
    /\ PollerInit
    /\ LookupTracked
    /\ ApproveIdle
    /\ LedgerIdle
    /\ JobIdle
    /\ DeskIdle
    /\ WaitIdle

LookupNext ==
    \/ NotifierLookup
    \/ OnDownloadCompleted

\* the two lookups, applied to every set of tracked requests
SpecLookup == LookupInit /\ [][LookupNext]_vars

ApproveInit ==
    /\ PollerInit
    /\ LookupIdle
    /\ ApproveRequested
    /\ LedgerIdle
    /\ JobIdle
    /\ DeskIdle
    /\ WaitIdle

ApproveNext ==
    \/ SelectIndexer
    \/ ApproveClick
    \/ ApproveDeferred
    \/ ApproveSubmit
    \/ ApproveConfirm
    \/ ApproveFinish
    \/ DenyClick
    \/ DenyFinish
    \/ CompletionObserved

\* one request from the admin message to the completion of its download
SpecApprove == ApproveInit /\ [][ApproveNext]_vars

LedgerInit ==
    /\ PollerInit
    /\ LookupIdle
    /\ ApproveIdle
    /\ LedgerConstructed
    /\ JobIdle
    /\ DeskIdle
    /\ WaitIdle

LedgerNext ==
    \/ Call
    \/ Reconstruct

\* the calls on one store, over any file, with writes that can fail, across
\* restarts
SpecLedger == LedgerInit /\ [][LedgerNext]_vars

JobInit ==
    /\ PollerInit
    /\ LookupIdle
    /\ ApproveIdle
    /\ LedgerIdle
    /\ JobListed
    /\ DeskIdle
    /\ WaitIdle

JobNext ==
    \/ \E ok \in BOOLEAN : JobConnect(ok)
    \/ \E ok \in BOOLEAN : JobList(ok)
    \/ JobOrganized
    \/ JobEdited
    \/ JobScanned
    \/ JobWake

\* the ticks of a started poller over one torrent
SpecJob == JobInit /\ [][JobNext]_vars

\* ... with no step of the poller put off for ever, and with the download
\* client reachable again and again
SpecJobLive ==
    /\ SpecJob
    /\ WF_vars(JobNext)
    /\ SF_vars(JobConnect(TRUE))
    /\ SF_vars(JobList(TRUE))

DeskInit ==
    /\ PollerInit
    /\ LookupIdle
    /\ ApproveIdle
    /\ LedgerIdle
    /\ JobIdle
    /\ DeskOpen
    /\ WaitIdle

DeskNext ==
    \/ ShowBookRequest
    \/ AdminClick
    \/ AdminEditsUserMessage
    \/ PendingDropped

\* the requests the users open and the decisions of the admins on them
SpecDesk == DeskInit /\ [][DeskNext]_vars

WaitInit ==
    /\ PollerInit
    /\ LookupIdle
    /\ ApproveIdle
    /\ LedgerIdle
    /\ JobIdle
    /\ DeskIdle
    /\ WaitCalled

WaitNext ==
    \/ WaitPoll
    \/ WaitSleepReturns

\* one call of wait_for_completion
SpecWait == WaitInit /\ [][WaitNext]_vars

\* ... in which the event loop always resumes the coroutine
SpecWaitLive == SpecWait /\ WF_vars(WaitNext)

TypeOK ==
    /\ processed_hashes \subseteq Jobs
    /\ dbFile.status \in {"missing", "valid", "corrupt"}
    /\ dbFile.hashes \subseteq Jobs
    /\ monitoring \in BOOLEAN
    /\ task \in {"none", "running", "cancelled", "finished"}
    /\ pc \in {"done", "connect", "list", "loop", "organize", "notify", "sleep"}
    /\ connected \in BOOLEAN
    /\ torrents \in Snapshots
    /\ cur \in TorrentInfo \cup {NoTorrent}
    /\ organizerRuns \in Nat
    /\ crashed \in BOOLEAN
    /\ stopped \in BOOLEAN
    /\ stopping \in BOOLEAN
    /\ \A i \in DOMAIN all_approvals : all_approvals[i] \in Approvals
    /\ pending_requests \subseteq Requests
    /\ found.index \in 0..NumRequests
    /\ matched.request \in 0..NumRequests
    /\ \A i \in DOMAIN torrent_results : torrent_results[i] \in Seeders
    /\ best_result \in 0..MaxCandidates
    /\ selected_torrent \in 0..MaxCandidates
    /\ touched \in BOOLEAN
    /\ listening \in BOOLEAN
    /\ result \in {"none", "approved", "denied"}
    /\ \A c \in DOMAIN handlers :
         /\ handlers[c].pc \in {"none", "defer", "edit", "dm", "confirm",
                                 "denying", "done"}
         /\ handlers[c].torrent \in 0..MaxCandidates
         /\ handlers[c].hash \in {0, handlers[c].torrent}
         /\ handlers[c].said \in {"none", "download_started", "denied"}
    /\ kind \in StoreKinds \cup {"none"}
    /\ kind \in StoreKinds =>
         /\ store.typed => store.rows \in Rows(kind)
         /\ file \in Files(kind)
         /\ op \in Calls(kind) \cup {Construct}
         /\ ret \in {"None", "True", "False"}
         /\ write \in WriteOutcomes \cup {"none"}
    /\ job.pc \in {"none", "connect", "list", "organize", "edit", "scan",
                  "sleep"}
    /\ JobIdle \/
         /\ job.view \in Views
         /\ job.category \in Categories /\ job.configured \in Categories
         /\ job.organizer \in OrganizerOutcomes \cup {"none"}
         /\ job.processed \in BOOLEAN
    /\ DeskIdle \/
         /\ \A r \in Requests :
              /\ desk.user[r] \in 0..NumUsers
              /\ desk.edited[r] \in 0..NumRequests
              /\ desk.decision[r] \in {"none", "approved", "denied"}
         /\ \A u \in Users : desk.pending[u] \in 0..NumRequests
    /\ WaitIdle \/
         /\ wait.pc \in {"check", "sleep", "returned"}
         /\ wait.timeout \in Timeouts
         /\ wait.poll_interval \in PollIntervals
         /\ wait.elapsed \in 0..MaxElapsed
         /\ wait.ret \in {"none", "None", "torrent_info"}

\* ================================================================ claims

\* the step in which the process that ran a poller task dies and restarts
Died == task # "none" /\ task' = "none"

\* the step in which stop() cancels the running task
Cancelled == task = "running" /\ task' = "cancelled"

\* the step is taken by the running process: no crash, no stop()
NoInterrupt == ~Died /\ ~Cancelled

\* the for loop is at a torrent that the tick has listed
AtTorrent == task = "running" /\ pc = "loop" /\ torrents # <<>>

\* C1: for a hash that is already in the processed set, no step makes an
\* organize call or a notify call for it, and the loop iteration of a tick
\* that lists it (in any state, at any progress) only moves on: the set and
\* its file stay as they are, however often the tick is repeated.
C1_IdempotentCompletion ==
    [][\A j \in Jobs : j \in processed_hashes =>
          /\ orgCalls'[j] = orgCalls[j]
          /\ notifyCalls'[j] = notifyCalls[j]
          /\ (AtTorrent /\ Head(torrents).hash = j /\ NoInterrupt =>
                /\ processed_hashes' = processed_hashes
                /\ dbFile' = dbFile
                /\ pc' = "loop")]_vars

\* C1 witness: a second tick lists a completed torrent that is in the set
C1_Witness ==
    /\ AtTorrent
    /\ ticks = 2
    /\ Head(torrents).hash \in processed_hashes
    /\ Head(torrents).state = "seeding"
    /\ Head(torrents).progress = 100
    /\ orgCalls[Head(torrents).hash] = 1

\* C2 as stated: over the whole life of the deployment, crashes and restarts
\* included, no job is organized or notified more than once.
C2_ExactlyOnce ==
    \A j \in Jobs : orgCalls[j] <= 1 /\ notifyCalls[j] <= 1

\* C2 amended: a job that is marked processed has been organized and notified
\* at least once, and a job is organized or notified more than once only if
\* its sequence was cut short before the mark (crash, stop(), an exception
\* leaving the notifier) or a restart reloaded a file without its mark.
C2_AtLeastOnce ==
    \A j \in Jobs :
        /\ j \in processed_hashes => orgCalls[j] >= 1 /\ notifyCalls[j] >= 1
        /\ orgCalls[j] > 1 => j \in redo
        /\ notifyCalls[j] > 1 => j \in redo

\* C2 witness: after a crash a job has been organized a second time and is
\* now marked processed
C2_Witness ==
    \E j \in Jobs :
        /\ crashed
        /\ j \in processed_hashes
        /\ orgCalls[j] = 2
        /\ notifyCalls[j] >= 1

C4_MarkAfterAttempts ==
    [][/\ \A j \in Jobs :
            j \in processed_hashes' \ processed_hashes
            => /\ InSequence /\ NoInterrupt
               /\ cur.hash = j
               /\ orgCalls[j] >= 1
               /\ notifyCalls'[j] >= 1
               /\ notifyCalls'[j] >= notifyCalls[j]
       /\ \A j \in Jobs :
            j \in LoadProcessedHashes(dbFile') \ LoadProcessedHashes(dbFile)
            => /\ InSequence /\ NoInterrupt
               /\ j \in processed_hashes'
               /\ orgCalls[j] >= 1
               /\ notifyCalls'[j] >= 1
       /\ (InSequence /\ Died)
            => /\ cur.hash \notin processed_hashes'
               /\ cur.hash \notin LoadProcessedHashes(dbFile')]_vars

\* C4 witness: the process died inside the sequence of a job, and after the
\* restart the organizer is running for that job again
C4_Witness ==
    /\ crashed
    /\ InSequence /\ pc = "organize"
    /\ cur.hash \in redo
    /\ orgCalls[cur.hash] = 2
    /\ cur.hash \notin processed_hashes

\* C5 as stated: a hash that is in the processed set is in it in every later
\* state, restarts included.
C5_NeverRemoved ==
    [][\A j \in Jobs : j \in processed_hashes => j \in processed_hashes']_vars

\* C5 amended: a hash in the set stays in it for as long as the process
\* lives, whatever ticks, start/stop calls and write outcomes follow; across
\* a restart it stays exactly when the file read at the restart is readable
\* and holds it.
C5_NeverRemovedWhileAlive ==
    [][\A j \in Jobs : j \in processed_hashes =>
          /\ ~Died => j \in processed_hashes'
          /\ Died =>
                (j \in processed_hashes' <=>
                    dbFile.status = "valid" /\ j \in dbFile.hashes)]_vars

\* C5 witness: the process has been restarted and a hash marked before the
\* restart has been loaded back from the file
C5_Witness ==
    \E j \in Jobs :
        /\ crashed
        /\ task = "none"
        /\ j \in processed_hashes
        /\ orgCalls[j] >= 1

\* C6: the sequence is under way only for a torrent that is unprocessed and
\* is seeding or at progress >= 1.0; and the loop iteration at an unprocessed
\* torrent starts the sequence if and only if the torrent is seeding or at
\* progress >= 1.0, a torrent with neither causing no call and no mark.
C6_CompleteIffSeedingOrDone ==
    /\ [](InSequence =>
            /\ cur.state = "seeding" \/ cur.progress >= 100
            /\ cur.hash \notin processed_hashes)
    /\ [][(AtTorrent /\ Head(torrents).hash \notin processed_hashes /\ NoInterrupt
             /\ torrents' # torrents)
          => IF Head(torrents).state = "seeding" \/ Head(torrents).progress >= 100
             THEN /\ pc' = "organize"
                  /\ cur' = Head(torrents)
                  /\ orgCalls'[cur'.hash] = orgCalls[cur'.hash] + 1
             ELSE /\ pc' = "loop"
                  /\ orgCalls' = orgCalls
                  /\ notifyCalls' = notifyCalls
                  /\ processed_hashes' = processed_hashes
                  /\ dbFile' = dbFile]_vars

\* C6 witness: the organizer is running for a torrent that is seeding below
\* 100%, after a torrent that is paused at 100% has been marked processed
C6_Witness ==
    /\ InSequence
    /\ cur.state = "seeding" /\ cur.progress < 100
    /\ processed_hashes # {}
    /\ ~crashed

\* C7: the tick works (fetches the list, iterates, organizes, notifies) only
\* after a successful connection; the step in which the connection attempt
\* fails ends the tick and changes neither the list, the calls made, the
\* organizer runs, the processed set nor its file.
C7_NoWorkWithoutConnection ==
    /\ [](task = "running" /\ pc \in {"list", "loop", "organize", "notify"}
            => connected)
    /\ [][(task = "running" /\ pc = "connect" /\ ticks' # ticks /\ ~connected')
          => /\ pc' = "sleep"
             /\ UNCHANGED <<torrents, cur, orgCalls, notifyCalls, organizerRuns,
                            processed_hashes, dbFile>>]_vars

\* C7 witness: a tick has ended on a failed connection attempt
C7_Witness ==
    /\ task = "running"
    /\ pc = "sleep"
    /\ ~connected
    /\ ticks >= 1

\* C8: a tick does not end while torrents of its list are still to be
\* evaluated, whatever happens to the torrent being processed.
C8_TickIsolation ==
    [][(task = "running" /\ pc \in {"loop", "organize", "notify"}
          /\ NoInterrupt /\ pc' = "sleep")
        => torrents = <<>>]_vars

\* C9: no step other than stop() (cancellation) or the death of the process
\* ends the loop task: an error in a tick leaves the task running, the loop
\* sleeps, and the sleep is followed by the connection attempt of the next
\* tick; while the monitoring flag is set the task is running.
C9_LoopSurvivesErrors ==
    /\ [](monitoring => task = "running" /\ pc # "done")
    /\ [](task # "finished")
    /\ [][(task = "running" /\ NoInterrupt)
          => /\ task' = "running"
             /\ pc' # "done"
             /\ (pc = "organize" /\ pc' \notin {"organize", "notify", "loop"}
                   => pc' = "sleep")
             /\ (pc = "sleep" /\ pc' # "sleep" => pc' = "connect")]_vars

\* C9 witness: with no stop and no crash, a tick has ended on an exception
\* and the next tick is running
C9_Witness ==
    /\ ~stopped /\ ~crashed
    /\ redo # {}
    /\ task = "running"
    /\ pc = "loop"
    /\ ticks = 2

\* C10: at most one loop task has been created since the last stop(), and a
\* start() that finds the poller running changes nothing but the log.
C10_StartIdempotent ==
    /\ [](tasksCreated <= 1)
    /\ [][(monitoring /\ log' = "already_running" /\ log # "already_running")
          => UNCHANGED <<processed_hashes, dbFile, monitoring, task, pc,
                         connected, torrents, cur, organizerRuns, orgCalls,
                         notifyCalls, redo, tasksCreated, crashed, stopped, ticks>>]_vars

\* C10 witness: start() has been called on a running poller
C10_Witness ==
    /\ log = "already_running"
    /\ monitoring
    /\ task = "running"
    /\ tasksCreated = 1

\* the step in which a suspended stop() resumes and returns
StopReturns == stopping /\ ~stopping' /\ ~Died

\* a step of the poller's work: a connection attempt, an organize or notify
\* call, a mark or a write of the processed set
PollerStep ==
    \/ ticks' # ticks
    \/ orgCalls' # orgCalls
    \/ notifyCalls' # notifyCalls
    \/ ~Died /\ (processed_hashes' # processed_hashes \/ dbFile' # dbFile)

\* C11 as stated: whenever a stop() call returns, the running flag is false.
C11_FlagFalseWhenStopReturns ==
    [][StopReturns => ~monitoring']_vars

\* C11 amended: the step in which stop() cancels the loop task clears the
\* flag and is the last step of that task, whatever await it was suspended
\* at: it makes no call, no mark and no write, and every later poller step is
\* taken by a task that a start() created after that stop(), once stop() has
\* returned.  While the flag is false no loop task is running.  When stop()
\* returns the flag is false unless a start() ran while stop() was awaiting
\* the cancelled task, and a start() that finds the flag false begins a
\* fresh loop at the connection attempt of a new tick.
C11_StopEndsLoop ==
    /\ [](task = "running" => monitoring /\ tasksCreated = 1)
    /\ [][Cancelled =>
            /\ ~monitoring' /\ stopping' /\ tasksCreated' = 0
            /\ pc' = "done" /\ cur' = NoTorrent /\ torrents' = <<>>
            /\ ~PollerStep]_vars
    /\ [][PollerStep =>
            /\ task = "running" /\ task' = "running"
            /\ monitoring /\ ~stopping]_vars
    /\ [][StopReturns =>
            /\ monitoring' <=> tasksCreated' = 1
            /\ ~PollerStep]_vars
    /\ [][~monitoring /\ monitoring' =>
            /\ task' = "running" /\ pc' = "connect"
            /\ cur' = NoTorrent /\ torrents' = <<>>
            /\ tasksCreated' = 1]_vars

\* C11 witness: stop() cancelled the task inside the sequence of a job and
\* has returned; a later start() began a fresh loop, whose tick is now
\* organizing that job again
C11_Witness ==
    /\ stopped /\ ~crashed /\ ~stopping
    /\ log = "started"
    /\ task = "running" /\ pc = "organize"
    /\ cur.hash \in redo
    /\ orgCalls[cur.hash] = 2

\* C12: the approval that the notifier finds for a hash stores that hash, it
\* finds none only when no approval stores the hash, and the completion of a
\* job never updates the message of a request for a book of another title
\* (a title that is only a piece of the completed torrent's name).
C12_ExactJobMatch ==
    /\ found.index # 0 => all_approvals[found.index].torrent_hash = found.hash
    /\ (found.hash # 0 /\ found.index = 0) =>
            \A i \in DOMAIN all_approvals : all_approvals[i].torrent_hash # found.hash
    /\ (matched.request # 0 /\ matched.request # matched.job) =>
            LowerStr(books[matched.request]) = LowerStr(books[matched.job])

\* C13: once an approve whose add_torrent call returned no hash has ended,
\* the admin has been told of the failure, and as long as no submission has
\* succeeded and nobody has denied, the decision is still open and the admin
\* message still takes clicks.
C13_FailureLeavesPending ==
    \A c \in Clicks :
        (handlers[c].pc = "done" /\ handlers[c].called /\ handlers[c].hash = 0)
        => /\ handlers[c].said = "failed"
           /\ (\A b \in Clicks : handlers[b].hash = 0 /\ handlers[b].said # "denied")
                => result = "none" /\ listening

\* C14: when the poller sees a job that an approve submitted complete, the
\* notifier's lookup finds an approval that stores the job's hash.
C14_JobIdRecorded ==
    found.hash # 0 =>
        /\ found.index # 0
        /\ all_approvals[found.index].torrent_hash = found.hash

\* C15: over all the clicks on one admin message, add_torrent is called at
\* most once.
C15_AtMostOneSubmission ==
    Cardinality({c \in Clicks : handlers[c].called}) <= 1

\* C16: an approve clicked before the selector was ever used submits the
\* candidate with the most seeders, the first of them in search order.
C16_DefaultIsTopSeeder ==
    \A c \in Clicks :
        (handlers[c].called /\ handlers[c].default)
        => /\ handlers[c].torrent = MaxSeeders(torrent_results)
           /\ handlers[c].torrent = best_result

\* C17: add_approval on a store that holds a dict does not raise; when its
\* write succeeds it returns true and the store holds a pending record
\* under the identifier; when its write fails it returns false.
C17_AddReportsWriteFailure ==
    (op.name = "add_approval" /\ store.typed) =>
        /\ ret \in {"True", "False"}
        /\ write = "ok" =>
              /\ ret = "True"
              /\ Has(store, op.id)
              /\ store.rows[op.id].status = "pending"
        /\ write \in {"unchanged", "corrupt"} => ret = "False"

\* the methods that update a record they look up
UpdateCalls ==
    {"update_approval", "link_admin_message", "update_status", "mark_complete"}

\* the keys a call looks up
Addressed(o) ==
    CASE o.name \in {"add_approval", "update_approval", "remove_approval",
                     "mark_processed"} -> {o.id}
      [] o.name \in {"add_request_message", "link_admin_message",
                     "update_status"} -> {Str(o.id)}
      [] OTHER -> {o.id, LowerStr(o.title)} \ {NoString}

\* C18: a call of update_approval, link_admin_message, update_status or
\* mark_complete that addresses no key of the store returns false, leaves
\* the store and the file as they were and makes no write.
C18_UnknownKeyNoOp ==
    [][(op'.name \in UpdateCalls /\ Addressed(op') \cap DOMAIN store.rows = {}) =>
          /\ ret' = "False"
          /\ store' = store
          /\ file' = file
          /\ write' = "none"]_vars

\* C18 witness: update_approval has returned false on a store that holds
\* another record
C18_Witness ==
    /\ op.name = "update_approval"
    /\ store.typed
    /\ DOMAIN store.rows # {}
    /\ op.id \notin DOMAIN store.rows
    /\ ret = "False"
    /\ write = "none"

\* C19: on a store constructed over a missing or damaged file, every call
\* returns what it returns on a fresh empty store given the same calls,
\* and leaves the same store.
C19_DamagedFileAsFresh ==
    twin.tracked =>
        /\ ret = twin.ret
        /\ op # Construct => store = twin.store

C21_StatusLegality ==
    [][(op'.name = "update_approval" /\ store.typed /\ store'.typed) =>
          \A id \in DOMAIN store.rows \cap DOMAIN store'.rows :
              store'.rows[id].status # store.rows[id].status =>
                  /\ store.rows[id].status = "pending"
                  /\ store'.rows[id].status \in {"approved", "denied"}]_vars

\* C22: a job whose organizer run could not set up its SSH channel is not
\* in the processed set when the tick ends.
C22_ChannelFailureNotMarked ==
    job.organizer = "channel_failed" => ~job.processed

C24_ScanWhateverTheEdit ==
    (job.pc = "sleep" /\ job.organizer # "none" /\ job.approvals = "found") =>
        /\ job.scan # "none"
        /\ job.processed

\* C25: a tick that lists the torrents evaluates a job of the category that
\* add_torrent assigns, and a job of another category is never organized
\* nor marked processed.
C25_ManagedCategoryOnly ==
    /\ [][(JobList(TRUE) /\ Managed /\ ~job.processed /\ IsCompleted(JobTorrent))
            => job'.pc = "organize"]_vars
    /\ [](~Managed => (job.organizer = "none" /\ ~job.processed))

DenyClicked ==
    \E b \in DOMAIN handlers :
        handlers[b].pc = "denying" \/ handlers[b].said = "denied"

\* C26: once deny has been clicked on an admin message, no handler of that
\* message calls add_torrent any more, whatever the order of the clicks and
\* of the handlers' steps.
C26_DenyIsTerminal ==
    [][DenyClicked =>
          \A c \in DOMAIN handlers \cap DOMAIN handlers' :
              handlers'[c].called => handlers[c].called]_vars

\* C28: at most one organizer run is executing at any time, a run left in
\* the worker pool by a cancelled loop task included.
C28_OneOrganizerRun == organizerRuns <= 1

\* C29: the user message that the handler of an approve or a deny of
\* request r edits is the status message that was created for r.
C29_EditsOwnMessage ==
    \A r \in DOMAIN desk.edited : desk.edited[r] # 0 => desk.edited[r] = r

\* C30: a call of wait_for_completion with a timeout other than None
\* returns: the torrent's info at the first poll that sees it complete,
\* None at the first poll that does not find it, and None at the first
\* check at which elapsed has reached the timeout; so it always returns.
C30_TimeoutTerminates ==
    /\ [][(wait.pc = "check" /\ wait.timeout # NoTimeout) =>
             /\ (wait.elapsed >= wait.timeout =>
                    wait'.pc = "returned" /\ wait'.ret = "None")
             /\ (wait.elapsed < wait.timeout /\ wait'.seen = "complete" =>
                    wait'.pc = "returned" /\ wait'.ret = "torrent_info")
             /\ (wait.elapsed < wait.timeout /\ wait'.seen = "missing" =>
                    wait'.pc = "returned" /\ wait'.ret = "None")]_vars
    /\ [](wait.timeout # NoTimeout => <>(wait.pc = "returned"))

====
